---------------------------- MODULE Spec2Model ----------------------------
(***************************************************************************)
(* fetchncache (cmd/fetchncache/main.go): the target-processing pipeline   *)
(* and the run driver.  Strings are sequences of one-character strings,    *)
(* so that the string and path functions of the code are computed, not     *)
(* assumed.                                                                *)
(***************************************************************************)
EXTENDS Integers, Sequences, FiniteSets, TLC

(***************************************************************************)
(* Bounds of the model.                                                    *)
(***************************************************************************)
MaxTargets == 2

(***************************************************************************)
(* Program constants.                                                      *)
(***************************************************************************)
RetryMax == 3

(***************************************************************************)
(* package strings                                                         *)
(***************************************************************************)
HasPrefix(s, p) ==
  /\ Len(p) <= Len(s)
  /\ SubSeq(s, 1, Len(p)) = p

HasSuffix(s, suf) ==
  /\ Len(suf) <= Len(s)
  /\ SubSeq(s, Len(s) - Len(suf) + 1, Len(s)) = suf

\* The positions at which sub occurs in s.
Occurrences(s, sub) ==
  {k \in 1..(Len(s) - Len(sub) + 1) : SubSeq(s, k, k + Len(sub) - 1) = sub}

Contains(s, sub) == Occurrences(s, sub) # {}

Min(S) == CHOOSE x \in S : \A y \in S : x <= y

Max(S) == CHOOSE x \in S : \A y \in S : x >= y

TrimSuffix(s, suf) ==
  IF HasSuffix(s, suf) THEN SubSeq(s, 1, Len(s) - Len(suf)) ELSE s

\* strings.ReplaceAll for a non-empty old: the leftmost occurrence first,
\* then the rest of the string after it.
RECURSIVE ReplaceAll(_, _, _)
ReplaceAll(s, old, new) ==
  IF ~Contains(s, old) THEN s
  ELSE LET k == Min(Occurrences(s, old))
       IN  SubSeq(s, 1, k - 1) \o new
             \o ReplaceAll(SubSeq(s, k + Len(old), Len(s)), old, new)

\* strings.Split(s, sep) for a non-empty sep: always at least one part.
RECURSIVE Split(_, _)
Split(s, sep) ==
  IF ~Contains(s, sep) THEN <<s>>
  ELSE LET k == Min(Occurrences(s, sep))
       IN  <<SubSeq(s, 1, k - 1)>> \o Split(SubSeq(s, k + Len(sep), Len(s)), sep)

UpperToLower ==
  [c \in {"A","B","C","D","E","F","G","H","I","J","K","L","M",
          "N","O","P","Q","R","S","T","U","V","W","X","Y","Z"} |->
     CASE c = "A" -> "a" [] c = "B" -> "b" [] c = "C" -> "c" [] c = "D" -> "d"
       [] c = "E" -> "e" [] c = "F" -> "f" [] c = "G" -> "g" [] c = "H" -> "h"
       [] c = "I" -> "i" [] c = "J" -> "j" [] c = "K" -> "k" [] c = "L" -> "l"
       [] c = "M" -> "m" [] c = "N" -> "n" [] c = "O" -> "o" [] c = "P" -> "p"
       [] c = "Q" -> "q" [] c = "R" -> "r" [] c = "S" -> "s" [] c = "T" -> "t"
       [] c = "U" -> "u" [] c = "V" -> "v" [] c = "W" -> "w" [] c = "X" -> "x"
       [] c = "Y" -> "y" [] c = "Z" -> "z"]

ToLower(s) ==
  [k \in 1..Len(s) |-> IF s[k] \in DOMAIN UpperToLower THEN UpperToLower[s[k]] ELSE s[k]]

(***************************************************************************)
(* package path/filepath (Unix separator)                                  *)
(***************************************************************************)
Slash == <<"/">>

SlashPositions(p) == {k \in 1..Len(p) : p[k] = "/"}

\* The elements of a path: the parts between separators.
Elements(p) == Split(p, Slash)

RECURSIVE JoinElements(_)
JoinElements(es) ==
  IF Len(es) = 0 THEN <<>>
  ELSE IF Len(es) = 1 THEN es[1]
  ELSE es[1] \o Slash \o JoinElements(Tail(es))

\* One pass of Clean over the elements: empty and "." elements disappear, and
\* ".." removes the element before it (it is kept at the start of a relative
\* path and dropped at the root).
RECURSIVE CleanElements(_, _, _)
CleanElements(es, acc, rooted) ==
  IF Len(es) = 0 THEN acc
  ELSE LET e == es[1]
       IN  IF e = <<>> \/ e = <<".">> THEN CleanElements(Tail(es), acc, rooted)
           ELSE IF e = <<".", ".">>
             THEN IF Len(acc) > 0 /\ acc[Len(acc)] # <<".", ".">>
                    THEN CleanElements(Tail(es), SubSeq(acc, 1, Len(acc) - 1), rooted)
                  ELSE IF rooted THEN CleanElements(Tail(es), acc, rooted)
                  ELSE CleanElements(Tail(es), Append(acc, e), rooted)
           ELSE CleanElements(Tail(es), Append(acc, e), rooted)

\* filepath.Clean
Clean(p) ==
  IF p = <<>> THEN <<".">>
  ELSE LET rooted == p[1] = "/"
           body   == JoinElements(CleanElements(Elements(p), <<>>, rooted))
       IN  IF rooted THEN Slash \o body
           ELSE IF body = <<>> THEN <<".">>
           ELSE body

\* filepath.Dir: everything before the last separator, cleaned.
Dir(p) ==
  IF SlashPositions(p) = {} THEN <<".">>
  ELSE Clean(SubSeq(p, 1, Max(SlashPositions(p))))

RECURSIVE StripTrailingSlashes(_)
StripTrailingSlashes(p) ==
  IF Len(p) > 0 /\ p[Len(p)] = "/" THEN StripTrailingSlashes(SubSeq(p, 1, Len(p) - 1))
  ELSE p

\* filepath.Base: the last element, trailing separators removed first.
Base(p) ==
  IF p = <<>> THEN <<".">>
  ELSE LET q == StripTrailingSlashes(p)
       IN  IF q = <<>> THEN Slash
           ELSE IF SlashPositions(q) = {} THEN q
           ELSE SubSeq(q, Max(SlashPositions(q)) + 1, Len(q))

\* filepath.Ext: the suffix from the last dot of the last element, "" if none.
Ext(p) ==
  LET last == IF SlashPositions(p) = {} THEN 0 ELSE Max(SlashPositions(p))
      dots == {k \in (last + 1)..Len(p) : p[k] = "."}
  IN  IF dots = {} THEN <<>> ELSE SubSeq(p, Max(dots), Len(p))

\* filepath.Join of two elements: empty elements are ignored, the rest is
\* joined with a separator and cleaned.
Join(a, b) ==
  IF a = <<>> /\ b = <<>> THEN <<>>
  ELSE IF a = <<>> THEN Clean(b)
  ELSE IF b = <<>> THEN Clean(a)
  ELSE Clean(a \o Slash \o b)

(***************************************************************************)
(* package time: the instants, the zone database and Time.Format for the   *)
(* layouts the code uses.                                                  *)
(***************************************************************************)
DigitChar == [d \in 0..9 |->
  CASE d = 0 -> "0" [] d = 1 -> "1" [] d = 2 -> "2" [] d = 3 -> "3" [] d = 4 -> "4"
    [] d = 5 -> "5" [] d = 6 -> "6" [] d = 7 -> "7" [] d = 8 -> "8" [] d = 9 -> "9"]

D2(n) == <<DigitChar[(n \div 10) % 10], DigitChar[n % 10]>>

D4(n) == D2(n \div 100) \o D2(n % 100)

\* An unpadded number below 100 (the "3" of Kitchen).
DNoPad(n) == IF n < 10 THEN <<DigitChar[n]>> ELSE D2(n)

\* A number below 100 padded with a space (the "_2" of Stamp).
DSpacePad(n) == IF n < 10 THEN <<" ", DigitChar[n]>> ELSE D2(n)

MonthAbbr == [m \in 1..12 |->
  CASE m = 1 -> <<"J","a","n">> [] m = 2 -> <<"F","e","b">> [] m = 3 -> <<"M","a","r">>
    [] m = 4 -> <<"A","p","r">> [] m = 5 -> <<"M","a","y">> [] m = 6 -> <<"J","u","n">>
    [] m = 7 -> <<"J","u","l">> [] m = 8 -> <<"A","u","g">> [] m = 9 -> <<"S","e","p">>
    [] m = 10 -> <<"O","c","t">> [] m = 11 -> <<"N","o","v">> [] m = 12 -> <<"D","e","c">>]

IsLeap(y) == (y % 4 = 0 /\ y % 100 # 0) \/ y % 400 = 0

DaysIn(y, m) ==
  IF m = 2 THEN (IF IsLeap(y) THEN 29 ELSE 28)
  ELSE IF m \in {4, 6, 9, 11} THEN 30 ELSE 31

\* The instants time.Now() is drawn from, as UTC wall-clock readings.
Instants ==
  { [year |-> 2025, month |-> 1,  day |-> 28, hour |-> 6,  min |-> 30, sec |-> 45, off |-> 0],
    [year |-> 2024, month |-> 12, day |-> 31, hour |-> 20, min |-> 4,  sec |-> 5,  off |-> 0] }

\* The host's zone database: name |-> offset from UTC in hours.
Z_Tokyo == <<"A","s","i","a","/","T","o","k","y","o">>

Z_NewYork == <<"A","m","e","r","i","c","a","/","N","e","w","_","Y","o","r","k">>

Z_London == <<"E","u","r","o","p","e","/","L","o","n","d","o","n">>

Z_PortAuPrince ==
  <<"A","m","e","r","i","c","a","/","P","o","r","t","-","a","u","-","P","r","i","n","c","e">>

Z_UTC == <<"U","T","C">>

ZoneDB == (Z_Tokyo :> 9) @@ (Z_NewYork :> -5) @@ (Z_London :> 0)
            @@ (Z_PortAuPrince :> -5) @@ (Z_UTC :> 0) @@ (<<>> :> 0)

\* time.LoadLocation succeeds for the names of the database.
LoadLocationOk(name) == name \in DOMAIN ZoneDB

\* Time.In / Time.UTC: the same instant read on a clock off hours from UTC.
InZone(t, off) ==
  LET h  == t.hour + off
      dd == IF h < 0 THEN -1 ELSE IF h >= 24 THEN 1 ELSE 0
      d1 == t.day + dd
      pm == IF t.month = 1 THEN 12 ELSE t.month - 1
      py == IF t.month = 1 THEN t.year - 1 ELSE t.year
      under == d1 < 1
      over  == d1 > DaysIn(t.year, t.month)
  IN  [year  |-> IF under THEN py ELSE IF over /\ t.month = 12 THEN t.year + 1 ELSE t.year,
       month |-> IF under THEN pm ELSE IF over THEN (t.month % 12) + 1 ELSE t.month,
       day   |-> IF under THEN DaysIn(py, pm) ELSE IF over THEN 1 ELSE d1,
       hour  |-> (h + 24) % 24,
       min   |-> t.min,
       sec   |-> t.sec,
       off   |-> off]

FmtDate(t) == D4(t.year) \o <<"-">> \o D2(t.month) \o <<"-">> \o D2(t.day)

FmtTime(t) == D2(t.hour) \o <<":">> \o D2(t.min) \o <<":">> \o D2(t.sec)

\* "Z07:00": Z on a zero offset, else the signed offset.
FmtZone(t) ==
  IF t.off = 0 THEN <<"Z">>
  ELSE (IF t.off < 0 THEN <<"-">> ELSE <<"+">>)
         \o D2(IF t.off < 0 THEN -t.off ELSE t.off) \o <<":", "0", "0">>

Hour12(t) == IF t.hour % 12 = 0 THEN 12 ELSE t.hour % 12

L_DateTime == <<"D","a","t","e","T","i","m","e">>

L_DateOnly == <<"D","a","t","e","O","n","l","y">>

L_TimeOnly == <<"T","i","m","e","O","n","l","y">>

L_RFC3339 == <<"R","F","C","3","3","3","9">>

L_Kitchen == <<"K","i","t","c","h","e","n">>

L_Stamp == <<"S","t","a","m","p">>

L_SimpleFS == <<"D","A","T","E","T","I","M","E","_","S","I","M","P","L","E","_","F","S">>

Layouts == {L_DateTime, L_DateOnly, L_TimeOnly, L_RFC3339, L_Kitchen, L_Stamp, L_SimpleFS}

\* now.Format(layout) for the layout named by the pattern's first component.
Format(t, name) ==
  CASE name = L_DateTime -> FmtDate(t) \o <<" ">> \o FmtTime(t)
    [] name = L_DateOnly -> FmtDate(t)
    [] name = L_TimeOnly -> FmtTime(t)
    [] name = L_RFC3339  -> FmtDate(t) \o <<"T">> \o FmtTime(t) \o FmtZone(t)
    [] name = L_Kitchen  -> DNoPad(Hour12(t)) \o <<":">> \o D2(t.min)
                              \o (IF t.hour < 12 THEN <<"A","M">> ELSE <<"P","M">>)
    [] name = L_Stamp    -> MonthAbbr[t.month] \o <<" ">> \o DSpacePad(t.day)
                              \o <<" ">> \o FmtTime(t)
    [] name = L_SimpleFS -> FmtDate(t) \o <<" ">> \o D2(t.hour) \o D2(t.min)

P_Slug == <<"s","l","u","g">>

P_None == <<"n","o","n","e">>

Placeholder == <<"{","p","a","t","t","e","r","n","}">>

\* Results of the functions that return (value, error).
Ok(v) == [ok |-> TRUE, v |-> v]

Err(e) == [ok |-> FALSE, v |-> e]

\* Mutant of generatePatternValue: slug replaces the spaces too.
generatePatternValue_SpacesToo(pattern, now) ==
  LET parts == Split(pattern, <<"-">>)
  IN  IF Len(parts) # 3 THEN Err("pattern must have 3 components")
      ELSE IF parts[2] # Z_UTC /\ ~LoadLocationOk(parts[2]) THEN Err("loading timezone")
      ELSE IF parts[1] \notin Layouts THEN Err("unsupported datetime format")
      ELSE LET t == InZone(now, IF parts[2] = Z_UTC THEN 0 ELSE ZoneDB[parts[2]])
               formatted == Format(t, parts[1])
           IN  IF parts[3] = P_Slug
                 THEN Ok(ReplaceAll(ReplaceAll(formatted, <<" ">>, <<"-">>),
                                    <<":">>, <<"-">>))
               ELSE Err("unsupported processing")

\* generatePatternValue (main.go:43), with the reading of time.Now() as a
\* parameter.
generatePatternValue(pattern, now) ==
  LET parts == Split(pattern, <<"-">>)
  IN  IF Len(parts) # 3 THEN Err("pattern must have 3 components")
      ELSE IF parts[2] # Z_UTC /\ ~LoadLocationOk(parts[2]) THEN Err("loading timezone")
      ELSE IF parts[1] \notin Layouts THEN Err("unsupported datetime format")
      ELSE LET t == InZone(now, IF parts[2] = Z_UTC THEN 0 ELSE ZoneDB[parts[2]])
               formatted == Format(t, parts[1])
           IN  IF parts[3] = P_Slug
                 THEN Ok(ReplaceAll(formatted, <<":">>, <<"-">>))
               ELSE Err("unsupported processing")

\* Mutant of GetResolvedPath: only the first placeholder is replaced.
GetResolvedPath_FirstOnly(path, now) ==
  CASE path.kind = "string" -> Ok(path.v)
    [] path.kind = "array" ->
         IF Len(path.v) # 1 THEN Err("path array must contain exactly one configuration object")
         ELSE IF path.v[1].kind # "map" THEN Err("path configuration must be an object")
         ELSE LET m == path.v[1].v
              IN  IF ~("string" \in DOMAIN m /\ "pattern" \in DOMAIN m)
                    THEN Err("path configuration must have 'string' and 'pattern' fields")
                  ELSE IF ~Contains(m["string"], Placeholder)
                    THEN Err("path template must contain {pattern} placeholder")
                  ELSE LET pv == generatePatternValue(m["pattern"], now)
                           k  == Min(Occurrences(m["string"], Placeholder))
                       IN  IF ~pv.ok THEN Err("generating pattern value")
                           ELSE Ok(SubSeq(m["string"], 1, k - 1) \o pv.v
                                     \o SubSeq(m["string"], k + Len(Placeholder),
                                               Len(m["string"])))
    [] OTHER -> Err("path must be string or configuration object")

\* Target.GetResolvedPath (main.go:101).  A path is the decoded YAML value:
\* a string, or an array of values of which a map has a "string" and a
\* "pattern" entry when these are strings.
GetResolvedPath(path, now) ==
  CASE path.kind = "string" -> Ok(path.v)
    [] path.kind = "array" ->
         IF Len(path.v) # 1 THEN Err("path array must contain exactly one configuration object")
         ELSE IF path.v[1].kind # "map" THEN Err("path configuration must be an object")
         ELSE LET m == path.v[1].v
              IN  IF ~("string" \in DOMAIN m /\ "pattern" \in DOMAIN m)
                    THEN Err("path configuration must have 'string' and 'pattern' fields")
                  ELSE IF ~Contains(m["string"], Placeholder)
                    THEN Err("path template must contain {pattern} placeholder")
                  ELSE LET pv == generatePatternValue(m["pattern"], now)
                       IN  IF ~pv.ok THEN Err("generating pattern value")
                           ELSE Ok(ReplaceAll(m["string"], Placeholder, pv.v))
    [] OTHER -> Err("path must be string or configuration object")


(***************************************************************************)
(* net/url and net/http, as parseHeaders, validateConfig and               *)
(* retryablehttp.NewRequest use them                                       *)
(***************************************************************************)
IsSpace(c) == c \in {" ", "\t", "\n", "\r"}

RECURSIVE TrimLeft(_)
TrimLeft(s) == IF Len(s) > 0 /\ IsSpace(s[1]) THEN TrimLeft(Tail(s)) ELSE s

RECURSIVE TrimRight(_)
TrimRight(s) ==
  IF Len(s) > 0 /\ IsSpace(s[Len(s)]) THEN TrimRight(SubSeq(s, 1, Len(s) - 1)) ELSE s

\* strings.TrimSpace
TrimSpace(s) == TrimRight(TrimLeft(s))

\* strings.SplitN(s, sep, 2): cut at the first occurrence of sep, if any.
SplitN2(s, sep) ==
  IF ~Contains(s, sep) THEN <<s>>
  ELSE LET k == Min(Occurrences(s, sep))
       IN  <<SubSeq(s, 1, k - 1), SubSeq(s, k + Len(sep), Len(s))>>

IsUpper(c) == c \in DOMAIN UpperToLower

IsLower(c) == \E u \in DOMAIN UpperToLower : UpperToLower[u] = c

IsDigit(c) == c \in {"0", "1", "2", "3", "4", "5", "6", "7", "8", "9"}

IsAlpha(c) == IsUpper(c) \/ IsLower(c)

ToUpperChar(c) ==
  IF IsLower(c) THEN CHOOSE u \in DOMAIN UpperToLower : UpperToLower[u] = c ELSE c

\* The bytes of an HTTP token, of which a header name is made (the backquote,
\* also a token byte, is in no name of the model).
IsTokenChar(c) ==
  IsAlpha(c) \/ IsDigit(c)
    \/ c \in {"!", "#", "$", "%", "&", "'", "*", "+", "-", ".", "^", "_", "|", "~"}

\* textproto.CanonicalMIMEHeaderKey, which http.Header.Set applies to the
\* name: a name that is not a token is kept as it is; in a token the first
\* letter and each letter after a hyphen are upper case, the others lower case.
CanonicalMIMEHeaderKey(name) ==
  IF \E k \in 1..Len(name) : ~IsTokenChar(name[k]) THEN name
  ELSE [k \in 1..Len(name) |->
          IF k = 1 \/ name[k - 1] = "-" THEN ToUpperChar(name[k])
          ELSE IF IsUpper(name[k]) THEN UpperToLower[name[k]]
          ELSE name[k]]

NoHeaders == [n \in {} |-> <<>>]

ColonSpace == <<":", " ">>

\* Mutant of parseHeadersFrom: the first line with a name keeps its value.
RECURSIVE parseHeadersFrom_FirstWins(_, _)
parseHeadersFrom_FirstWins(headerStrings, headers) ==
  IF Len(headerStrings) = 0 THEN Ok(headers)
  ELSE LET headerStr == headerStrings[1]
           parts     == SplitN2(headerStr, ColonSpace)
       IN  IF headerStr = <<>> THEN parseHeadersFrom_FirstWins(Tail(headerStrings), headers)
           ELSE IF Len(parts) # 2 THEN Err("invalid header format")
           ELSE LET name  == TrimSpace(parts[1])
                    value == TrimSpace(parts[2])
                IN  IF name = <<>> THEN Err("empty header name")
                    ELSE parseHeadersFrom_FirstWins(Tail(headerStrings),
                           headers @@ (CanonicalMIMEHeaderKey(name) :> value))

\* The loop of parseHeaders (main.go:346-362) over the lines that remain.
RECURSIVE parseHeadersFrom(_, _)
parseHeadersFrom(headerStrings, headers) ==
  IF Len(headerStrings) = 0 THEN Ok(headers)
  ELSE LET headerStr == headerStrings[1]
           parts     == SplitN2(headerStr, ColonSpace)
       IN  IF headerStr = <<>> THEN parseHeadersFrom(Tail(headerStrings), headers)
           ELSE IF Len(parts) # 2 THEN Err("invalid header format")
           ELSE LET name  == TrimSpace(parts[1])
                    value == TrimSpace(parts[2])
                IN  IF name = <<>> THEN Err("empty header name")
                    ELSE parseHeadersFrom(Tail(headerStrings),
                           (CanonicalMIMEHeaderKey(name) :> value) @@ headers)

\* parseHeaders (main.go:344)
parseHeaders(headerStrings) == parseHeadersFrom(headerStrings, NoHeaders)

\* net/url getScheme from position k: "scheme" when the URL starts with a
\* scheme and a colon, "none" when it has no scheme, "error" when it starts
\* with a colon.
RECURSIVE getScheme(_, _)
getScheme(rawURL, k) ==
  IF k > Len(rawURL) THEN "none"
  ELSE LET c == rawURL[k]
       IN  IF IsAlpha(c) THEN getScheme(rawURL, k + 1)
           ELSE IF IsDigit(c) \/ c \in {"+", "-", "."}
             THEN (IF k = 1 THEN "none" ELSE getScheme(rawURL, k + 1))
           ELSE IF c = ":" THEN (IF k = 1 THEN "error" ELSE "scheme")
           ELSE "none"

\* url.Parse succeeds.  Of its checks, those on the scheme and on a colon in
\* the first segment of a relative path are computed; the URLs of the model
\* have no escapes, no port and no bracketed host.
urlParseOk(rawURL) ==
  LET scheme == getScheme(rawURL, 1)
      first  == Split(rawURL, Slash)[1]
  IN  /\ scheme # "error"
      /\ (scheme = "none" /\ rawURL # <<>> /\ rawURL[1] # "/") => ~Contains(first, <<":">>)

(***************************************************************************)
(* Validation at startup                                                   *)
(***************************************************************************)
\* Mutant of validatePattern: the zone is not looked up.
validatePattern_ZoneUnchecked(pattern) ==
  LET parts == Split(pattern, <<"-">>)
  IN  IF Len(parts) # 3 THEN "pattern must have 3 components"
      ELSE IF parts[1] \notin Layouts THEN "unsupported datetime format"
      ELSE IF parts[3] # P_Slug THEN "unsupported processing"
      ELSE ""

\* validatePattern (main.go:278): "" for nil, else the error.
validatePattern(pattern) ==
  LET parts == Split(pattern, <<"-">>)
  IN  IF Len(parts) # 3 THEN "pattern must have 3 components"
      ELSE IF parts[1] \notin Layouts THEN "unsupported datetime format"
      ELSE IF parts[2] # Z_UTC /\ ~LoadLocationOk(parts[2]) THEN "invalid timezone"
      ELSE IF parts[3] # P_Slug THEN "unsupported processing"
      ELSE ""

\* validatePathConfig (main.go:238)
validatePathConfig(pathConfig) ==
  CASE pathConfig.kind = "string" ->
         IF pathConfig.v = <<>> THEN "path cannot be empty" ELSE ""
    [] pathConfig.kind = "array" ->
         IF Len(pathConfig.v) # 1
           THEN "path array must contain exactly one configuration object"
         ELSE IF pathConfig.v[1].kind # "map" THEN "path configuration must be an object"
         ELSE LET m == pathConfig.v[1].v
              IN  IF ~("string" \in DOMAIN m /\ "pattern" \in DOMAIN m)
                    THEN "path configuration must have 'string' and 'pattern' fields"
                  ELSE IF m["string"] = <<>> THEN "path template cannot be empty"
                  ELSE IF ~Contains(m["string"], Placeholder)
                    THEN "path template must contain {pattern} placeholder"
                  ELSE validatePattern(m["pattern"])
    [] OTHER -> "path must be string or configuration object"

\* The checks of validateConfig on one target (main.go:317-335).
validateTarget(target) ==
  IF target.url = <<>> THEN "URL is required"
  ELSE IF target.path.kind = "nil" THEN "Path is required"
  ELSE IF validatePathConfig(target.path) # "" THEN validatePathConfig(target.path)
  ELSE IF ~urlParseOk(target.url) THEN "invalid URL"
  ELSE IF ~parseHeaders(target.headers).ok THEN parseHeaders(target.headers).v
  ELSE ""

\* Mutant of validateConfig: only the first target is validated.
validateConfig_FirstTargetOnly(ts) ==
  IF Len(ts) = 0 THEN "no targets specified in config"
  ELSE validateTarget(ts[1])

\* validateConfig (main.go:311): the error of the first target that has one.
validateConfig(ts) ==
  IF Len(ts) = 0 THEN "no targets specified in config"
  ELSE LET bad == {k \in 1..Len(ts) : validateTarget(ts[k]) # ""}
       IN  IF bad = {} THEN "" ELSE validateTarget(ts[Min(bad)])

(***************************************************************************)
(* Literals of the code                                                    *)
(***************************************************************************)
DotJson == <<".", "j", "s", "o", "n">>

DotPpJson == <<".", "p", "p", ".", "j", "s", "o", "n">>

LatestName == <<"l", "a", "t", "e", "s", "t">>

\* Mutant of generateLatestPath: the .json suffix is tested before .pp.json.
generateLatestPath_SuffixFirst(resolvedPath) ==
  LET dir      == Dir(resolvedPath)
      filename == Base(resolvedPath)
      ext      == Ext(resolvedPath)
  IN  IF HasSuffix(filename, DotJson) THEN Join(dir, LatestName \o DotJson)
      ELSE IF Contains(filename, DotPpJson) THEN Join(dir, LatestName \o DotPpJson)
      ELSE IF ext = <<>> THEN Join(dir, LatestName)
      ELSE Join(dir, LatestName \o ext)

\* generateLatestPath (main.go:152)
generateLatestPath(resolvedPath) ==
  LET dir      == Dir(resolvedPath)
      filename == Base(resolvedPath)
      ext      == Ext(resolvedPath)
  IN  IF Contains(filename, DotPpJson) THEN Join(dir, LatestName \o DotPpJson)
      ELSE IF HasSuffix(filename, DotJson) THEN Join(dir, LatestName \o DotJson)
      ELSE IF ext = <<>> THEN Join(dir, LatestName)
      ELSE Join(dir, LatestName \o ext)

(***************************************************************************)
(* encoding/json.  A byte string is known by the value it decodes to       *)
(* ("invalid" when json.Unmarshal fails) and by its layout: "min" for      *)
(* the bytes json.Marshal produces for that value, "pretty" for those of   *)
(* json.MarshalIndent with two spaces, "other" for any other text.  The    *)
(* values are non-empty objects and arrays, for which the two              *)
(* serializations differ.                                                  *)
(***************************************************************************)
Bodies ==
  { [v |-> "obj", lay |-> "other"],
    [v |-> "invalid", lay |-> "other"] }

NoBytes == [v |-> "invalid", lay |-> "none"]

UnmarshalOk(data) == data.v # "invalid"

Marshal(jsonData) == [v |-> jsonData, lay |-> "min"]

MarshalIndent(jsonData) == [v |-> jsonData, lay |-> "pretty"]

(***************************************************************************)
(* The command line and the configuration                                  *)
(***************************************************************************)
JsonFormats == {"original", "pretty", "minimized", "both"}

\* The checks of parseFlags (main.go:198-211) on the delay and the format:
\* "" when the flags are accepted, else the error.
parseFlags(d, format) ==
  IF d < 0 THEN "delay must be non-negative"
  ELSE IF format \notin JsonFormats THEN "--json-format must be one of"
  ELSE ""

StringPath(p) == [kind |-> "string", v |-> p]

PatternPath(template, pattern) ==
  [kind |-> "array",
   v |-> <<[kind |-> "map", v |-> [string |-> template, pattern |-> pattern]]>>]

Pattern(layout, zone, processing) ==
  layout \o <<"-">> \o zone \o <<"-">> \o processing

\* The path values of the targets of a configuration.
TargetPaths ==
  { StringPath(<<".", "/", "d", "/", "a">> \o DotPpJson),
    StringPath(<<"d", "/">> \o LatestName \o DotJson),
    PatternPath(<<"d", "/", "x", "-">> \o Placeholder \o DotJson,
                Pattern(L_DateOnly, Z_UTC, P_Slug)) }

U_Ok == <<"h","t","t","p",":","/","/","h","/","o","k">>

H_Accept == <<"A","c","c","e","p","t",":"," ","a","/","b">>

Targets == [url : {U_Ok}, path : TargetPaths, headers : {<<H_Accept>>}]

Configs == UNION {[1..n -> Targets] : n \in 1..MaxTargets}

(***************************************************************************)
(* formatJSON and formatJSONBoth.  The outcome of each writeFileWithDir    *)
(* call is a parameter; writes lists the writes that succeeded, in order.  *)
(***************************************************************************)
FileWrite(path, data, kind) == [path |-> path, data |-> data, kind |-> kind]

\* Mutant of formatJSONBoth: the pretty file has no latest copy.
formatJSONBoth_NoLatestCopy(jsonData, targetPath, latestFlag, okPretty, okLatestPretty) ==
  LET minimized  == Marshal(jsonData)
      pretty     == MarshalIndent(jsonData)
      prettyPath == TrimSuffix(targetPath, DotJson) \o DotPpJson
      w1         == FileWrite(prettyPath, pretty, "pretty")
  IN  IF ~okPretty
        THEN [data |-> minimized, desc |-> "minimized",
              err |-> "writing pretty file", writes |-> <<>>,
              failed |-> {"pretty"}]
      ELSE [data |-> minimized, desc |-> "minimized (with pretty version)",
            err |-> "", writes |-> <<w1>>, failed |-> {}]

\* formatJSONBoth (main.go:437).  json.Marshal and json.MarshalIndent do not
\* fail on a value json.Unmarshal produced.
formatJSONBoth(jsonData, targetPath, latestFlag, okPretty, okLatestPretty) ==
  LET minimized  == Marshal(jsonData)
      pretty     == MarshalIndent(jsonData)
      prettyPath == TrimSuffix(targetPath, DotJson) \o DotPpJson
      w1         == FileWrite(prettyPath, pretty, "pretty")
      w2         == FileWrite(generateLatestPath(prettyPath), pretty, "latestPretty")
  IN  IF ~okPretty
        THEN [data |-> minimized, desc |-> "minimized",
              err |-> "writing pretty file", writes |-> <<>>,
              failed |-> {"pretty"}]
      ELSE IF latestFlag /\ ~okLatestPretty
        THEN [data |-> minimized, desc |-> "minimized",
              err |-> "writing latest pretty file", writes |-> <<w1>>,
              failed |-> {"latestPretty"}]
      ELSE [data |-> minimized, desc |-> "minimized (with pretty version)",
            err |-> "", writes |-> IF latestFlag THEN <<w1, w2>> ELSE <<w1>>,
            failed |-> {}]

\* Mutant of formatJSON: it applies to a path with .json anywhere in it.
formatJSON_JsonAnywhere(data, format, targetPath, latestFlag, okPretty, okLatestPretty) ==
  IF ~Contains(ToLower(targetPath), DotJson) \/ format = "original"
    THEN [data |-> data, desc |-> "", err |-> "", writes |-> <<>>, failed |-> {}]
  ELSE IF ~UnmarshalOk(data)
    THEN [data |-> data, desc |-> "", err |-> "parsing JSON", writes |-> <<>>,
          failed |-> {}]
  ELSE CASE format = "pretty" ->
              [data |-> MarshalIndent(data.v), desc |-> "pretty-printed", err |-> "",
               writes |-> <<>>, failed |-> {}]
         [] format = "minimized" ->
              [data |-> Marshal(data.v), desc |-> "minimized", err |-> "",
               writes |-> <<>>, failed |-> {}]
         [] format = "both" ->
              formatJSONBoth(data.v, targetPath, latestFlag, okPretty, okLatestPretty)
         [] OTHER ->
              [data |-> data, desc |-> "", err |-> "unknown format", writes |-> <<>>,
               failed |-> {}]

\* formatJSON (main.go:408)
formatJSON(data, format, targetPath, latestFlag, okPretty, okLatestPretty) ==
  IF ~HasSuffix(ToLower(targetPath), DotJson) \/ format = "original"
    THEN [data |-> data, desc |-> "", err |-> "", writes |-> <<>>, failed |-> {}]
  ELSE IF ~UnmarshalOk(data)
    THEN [data |-> data, desc |-> "", err |-> "parsing JSON", writes |-> <<>>,
          failed |-> {}]
  ELSE CASE format = "pretty" ->
              [data |-> MarshalIndent(data.v), desc |-> "pretty-printed", err |-> "",
               writes |-> <<>>, failed |-> {}]
         [] format = "minimized" ->
              [data |-> Marshal(data.v), desc |-> "minimized", err |-> "",
               writes |-> <<>>, failed |-> {}]
         [] format = "both" ->
              formatJSONBoth(data.v, targetPath, latestFlag, okPretty, okLatestPretty)
         [] OTHER ->
              [data |-> data, desc |-> "", err |-> "unknown format", writes |-> <<>>,
               failed |-> {}]

(***************************************************************************)
(* The state                                                               *)
(***************************************************************************)
VARIABLES
  targets,       \* config.Targets
  jsonFormat,    \* --json-format
  latest,        \* --latest
  delay,         \* -d / --delay, in seconds
  pc,            \* where main and processTarget are
  i,             \* the index of main's loop, from 1
  resolvedPath,  \* processTarget's resolvedPath
  req,           \* processTarget's req: the request, once created
  attempts,      \* the requests client.Do has sent for this target
  resp,          \* what the last request ended with; once client.Do has returned,
                 \* what it returned: "err" or the status of the response
  bodyBytes,     \* processTarget's bodyBytes
  dataToWrite,   \* processTarget's dataToWrite
  ret,           \* what processTarget returns: "nil" or the error
  fs,            \* the files: cleaned path |-> bytes
  exitCode,      \* the exit code of the process, -1 while it runs
  log,           \* history: the begin, end and sleep events of the run
  fs0,           \* history: fs when the current target began
  done,          \* history: the writes of the current target, kind |-> "ok", "fail"
  writer,        \* history: cleaned path |-> the target that last wrote it
  latestWriter,  \* history: cleaned path |-> the target whose latest write last succeeded
  plainPaths     \* history: the cleaned paths written as a resolved or a .pp.json path

vars ==
  <<targets, jsonFormat, latest, delay, pc, i, resolvedPath, req, attempts, resp,
    bodyBytes, dataToWrite, ret, fs, exitCode, log, fs0, done, writer, latestWriter,
    plainPaths>>

config == <<targets, jsonFormat, latest, delay>>

\* The variables of one call of processTarget.
locals == <<resolvedPath, req, attempts, resp, bodyBytes, dataToWrite, ret>>

files == <<fs, writer, latestWriter, plainPaths>>

NoPath == <<>>

\* No request: processTarget's req before retryablehttp.NewRequest.
NoRequest == [made |-> FALSE, url |-> <<>>, header |-> NoHeaders]

NoWrites == [k \in {} |-> "ok"]

NoFiles == [p \in {} |-> NoBytes]

Init ==
  /\ targets \in Configs
  /\ jsonFormat \in JsonFormats
  /\ latest \in BOOLEAN
  /\ delay \in {0, 1}
  /\ pc = "loop"
  /\ i = 1
  /\ resolvedPath = NoPath
  /\ req = NoRequest
  /\ attempts = 0
  /\ resp = "none"
  /\ bodyBytes = NoBytes
  /\ dataToWrite = NoBytes
  /\ ret = "none"
  /\ fs = NoFiles
  /\ exitCode = -1
  /\ log = <<>>
  /\ fs0 = NoFiles
  /\ done = NoWrites
  /\ writer = [p \in {} |-> 0]
  /\ latestWriter = [p \in {} |-> 0]
  /\ plainPaths = {}

(***************************************************************************)
(* writeFileWithDir (main.go:465) on success: the file named by the path   *)
(* holds the data.  Two paths that clean to the same path name one file.   *)
(***************************************************************************)
writeFileWithDir(fsys, path, data) == (Clean(path) :> data) @@ fsys

RECURSIVE ApplyWrites(_, _)
ApplyWrites(fsys, ws) ==
  IF Len(ws) = 0 THEN fsys
  ELSE ApplyWrites(writeFileWithDir(fsys, ws[1].path, ws[1].data), Tail(ws))

\* History of a list of successful writes by target t.
RECURSIVE NoteWriters(_, _, _)
NoteWriters(w, ws, t) ==
  IF Len(ws) = 0 THEN w
  ELSE NoteWriters((Clean(ws[1].path) :> t) @@ w, Tail(ws), t)

LatestOnly(ws) == SelectSeq(ws, LAMBDA w : w.kind \in {"latest", "latestPretty"})

PathsOf(ws) == {Clean(ws[j].path) : j \in 1..Len(ws)}

PlainOnly(ws) == SelectSeq(ws, LAMBDA w : w.kind \in {"primary", "pretty"})

Event(ev, t) == [ev |-> ev, t |-> t]

Return(e) ==
  /\ ret' = e
  /\ pc' = "pt_return"

(***************************************************************************)
(* github.com/hashicorp/go-retryablehttp, Client.Do with the default       *)
(* retry policy: what one request can end with.                            *)
(***************************************************************************)
AttemptOutcomes == {"neterr", "fatalerr", "s503", "s429", "s404", "s200"}

\* The outcomes DefaultRetryPolicy (v0.7.7) retries: a connection error, a
\* 429 and a 5xx status other than 501.
Transient == {"neterr", "s503", "s429"}

(***************************************************************************)
(* main's loop (main.go:598) and processTarget (main.go:475)               *)
(***************************************************************************)
N == Len(targets)

\* main.go:598-603: the loop takes the next target and calls processTarget.
LoopNext ==
  /\ pc = "loop"
  /\ i <= N
  /\ pc' = "pt_resolve"
  /\ fs0' = fs
  /\ log' = Append(log, Event("begin", i))
  /\ UNCHANGED <<config, i, locals, files, exitCode, done>>

\* Mutant of LoopExit: the exit code tells whether a target failed.
LoopExit_FailureStatus ==
  /\ pc = "loop"
  /\ i > N
  /\ pc' = "exit"
  /\ exitCode' = IF \E k \in 1..Len(log) : log[k].ev = "failed" THEN 1 ELSE 0
  /\ UNCHANGED <<config, i, locals, files, log, fs0, done>>

\* main.go:614-619: the loop is over, main returns.
LoopExit ==
  /\ pc = "loop"
  /\ i > N
  /\ pc' = "exit"
  /\ exitCode' = 0
  /\ UNCHANGED <<config, i, locals, files, log, fs0, done>>

\* Mutant of ResolvePath: an error of GetResolvedPath is not returned.
ResolvePath_ErrorIgnored ==
  /\ pc = "pt_resolve"
  /\ \E now \in Instants :
       LET r == GetResolvedPath(targets[i].path, now)
       IN  resolvedPath' = IF r.ok THEN r.v ELSE NoPath
  /\ pc' = "pt_request"
  /\ UNCHANGED <<config, i, req, attempts, resp, bodyBytes, dataToWrite, ret, files,
                 exitCode, log, fs0, done>>

\* main.go:477-480: the path is resolved with the reading of the clock.
ResolvePath ==
  /\ pc = "pt_resolve"
  /\ \E now \in Instants :
       LET r == GetResolvedPath(targets[i].path, now)
       IN  IF r.ok
             THEN /\ resolvedPath' = r.v
                  /\ pc' = "pt_request"
                  /\ ret' = ret
             ELSE /\ resolvedPath' = resolvedPath
                  /\ Return("resolving path")
  /\ UNCHANGED <<config, i, req, attempts, resp, bodyBytes, dataToWrite, files,
                 exitCode, log, fs0, done>>

\* main.go:487-509: the request is created and the headers of the target
\* are set on it.
CreateRequest ==
  /\ pc = "pt_request"
  /\ LET target        == targets[i]
         customHeaders == parseHeaders(target.headers)
     IN  IF ~urlParseOk(target.url)
           THEN Return("creating request") /\ UNCHANGED req
         ELSE IF Len(target.headers) > 0 /\ ~customHeaders.ok
           THEN Return("parsing headers") /\ UNCHANGED req
         ELSE /\ req' = [made |-> TRUE, url |-> target.url,
                         header |-> IF Len(target.headers) > 0 THEN customHeaders.v
                                    ELSE NoHeaders]
              /\ pc' = "pt_fetch"
              /\ ret' = ret
  /\ UNCHANGED <<config, i, resolvedPath, attempts, resp, bodyBytes, dataToWrite,
                 files, exitCode, log, fs0, done>>

\* Mutant of Fetch: a transient failure is retried without counting it.
Fetch_UnboundedRetries ==
  /\ pc = "pt_fetch"
  /\ \E o \in AttemptOutcomes :
       IF o \in Transient
         THEN /\ resp' = o
              /\ pc' = pc
              /\ attempts' = 1
         ELSE /\ resp' = IF o = "fatalerr" THEN "err" ELSE o
              /\ pc' = "pt_response"
              /\ attempts' = 1
  /\ UNCHANGED <<config, i, resolvedPath, req, bodyBytes, dataToWrite, ret, files,
                 exitCode, log, fs0, done>>

\* Mutant of Fetch: every response other than 200 is retried.
Fetch_RetriesAnyFailure ==
  /\ pc = "pt_fetch"
  /\ attempts <= RetryMax
  /\ attempts' = attempts + 1
  /\ \E o \in AttemptOutcomes :
       IF o \in Transient \cup {"s404"} /\ attempts < RetryMax
         THEN /\ resp' = o
              /\ pc' = pc
         ELSE /\ resp' = IF o \in Transient \/ o = "fatalerr" THEN "err" ELSE o
              /\ pc' = "pt_response"
  /\ UNCHANGED <<config, i, resolvedPath, req, bodyBytes, dataToWrite, ret, files,
                 exitCode, log, fs0, done>>

\* main.go:512: client.Do sends one more request.  A transient outcome is
\* retried while retries remain and ends in an error after RetryMax retries;
\* any other error and any other response is returned at once.
Fetch ==
  /\ pc = "pt_fetch"
  /\ attempts <= RetryMax
  /\ attempts' = attempts + 1
  /\ \E o \in AttemptOutcomes :
       IF o \in Transient /\ attempts < RetryMax
         THEN /\ resp' = o
              /\ pc' = pc
         ELSE /\ resp' = IF o \in Transient \/ o = "fatalerr" THEN "err" ELSE o
              /\ pc' = "pt_response"
  /\ UNCHANGED <<config, i, resolvedPath, req, bodyBytes, dataToWrite, ret, files,
                 exitCode, log, fs0, done>>

\* Mutant of CheckResponse: the status of the response is not checked.
CheckResponse_StatusUnchecked ==
  /\ pc = "pt_response"
  /\ \/ /\ resp = "err"
        /\ Return("fetching URL")
        /\ UNCHANGED bodyBytes
     \/ /\ resp \in {"s404", "s200"}
        /\ Return("reading response body")
        /\ UNCHANGED bodyBytes
     \/ /\ resp \in {"s404", "s200"}
        /\ \E b \in Bodies : bodyBytes' = b
        /\ pc' = "pt_format"
        /\ UNCHANGED ret
  /\ attempts' = 0
  /\ UNCHANGED <<config, i, resolvedPath, req, resp, dataToWrite, files, exitCode, log, fs0,
                 done>>

\* main.go:513-525: client.Do has returned; the error and the status are
\* checked and the body is read.
CheckResponse ==
  /\ pc = "pt_response"
  /\ \/ /\ resp = "err"
        /\ Return("fetching URL")
        /\ UNCHANGED bodyBytes
     \/ /\ resp = "s404"
        /\ Return("received status")
        /\ UNCHANGED bodyBytes
     \/ /\ resp = "s200"
        /\ Return("reading response body")
        /\ UNCHANGED bodyBytes
     \/ /\ resp = "s200"
        /\ \E b \in Bodies : bodyBytes' = b
        /\ pc' = "pt_format"
        /\ UNCHANGED ret
  /\ attempts' = 0
  /\ UNCHANGED <<config, i, resolvedPath, req, resp, dataToWrite, files, exitCode, log, fs0,
                 done>>

\* Mutant of FormatStep: an error of formatJSON aborts the target.
FormatStep_ErrorIsFatal ==
  /\ pc = "pt_format"
  /\ \E okPretty \in BOOLEAN, okLatestPretty \in BOOLEAN :
       LET r == formatJSON(bodyBytes, jsonFormat, resolvedPath, latest,
                           okPretty, okLatestPretty)
       IN  /\ dataToWrite' = r.data
           /\ fs' = ApplyWrites(fs, r.writes)
           /\ writer' = NoteWriters(writer, r.writes, i)
           /\ latestWriter' = NoteWriters(latestWriter, LatestOnly(r.writes), i)
           /\ plainPaths' = plainPaths \cup PathsOf(PlainOnly(r.writes))
           /\ done' = [k \in {r.writes[j].kind : j \in 1..Len(r.writes)} \cup r.failed |->
                         IF k \in r.failed THEN "fail" ELSE "ok"]
           /\ IF r.err # "" THEN Return("formatting JSON")
              ELSE pc' = "pt_write" /\ ret' = ret
  /\ UNCHANGED <<config, i, resolvedPath, req, attempts, resp, bodyBytes, exitCode, log,
                 fs0>>

\* main.go:532-538: formatJSON, with the files formatJSONBoth writes; on an
\* error the original bytes are kept.
FormatStep ==
  /\ pc = "pt_format"
  /\ \E okPretty \in BOOLEAN, okLatestPretty \in BOOLEAN :
       LET r == formatJSON(bodyBytes, jsonFormat, resolvedPath, latest,
                           okPretty, okLatestPretty)
       IN  /\ dataToWrite' = IF r.err # "" THEN bodyBytes ELSE r.data
           /\ fs' = ApplyWrites(fs, r.writes)
           /\ writer' = NoteWriters(writer, r.writes, i)
           /\ latestWriter' = NoteWriters(latestWriter, LatestOnly(r.writes), i)
           /\ plainPaths' = plainPaths \cup PathsOf(PlainOnly(r.writes))
           /\ done' = [k \in {r.writes[j].kind : j \in 1..Len(r.writes)} \cup r.failed |->
                         IF k \in r.failed THEN "fail" ELSE "ok"]
  /\ pc' = "pt_write"
  /\ UNCHANGED <<config, i, resolvedPath, req, attempts, resp, bodyBytes, ret, exitCode,
                 log, fs0>>

\* main.go:541-547: the primary write.
Write ==
  /\ pc = "pt_write"
  /\ \/ /\ fs' = writeFileWithDir(fs, resolvedPath, dataToWrite)
        /\ writer' = (Clean(resolvedPath) :> i) @@ writer
        /\ plainPaths' = plainPaths \cup {Clean(resolvedPath)}
        /\ done' = ("primary" :> "ok") @@ done
        /\ IF latest THEN pc' = "pt_latest" /\ ret' = ret ELSE Return("nil")
     \/ /\ done' = ("primary" :> "fail") @@ done
        /\ Return("writing file")
        /\ UNCHANGED <<fs, writer, plainPaths>>
  /\ UNCHANGED <<config, i, resolvedPath, req, attempts, resp, bodyBytes, dataToWrite,
                 exitCode, log, fs0, latestWriter>>

\* Mutant of WriteLatest: a failure of the latest write is returned.
WriteLatest_FailureIsFatal ==
  /\ pc = "pt_latest"
  /\ LET latestPath == generateLatestPath(resolvedPath)
     IN  \/ /\ fs' = writeFileWithDir(fs, latestPath, dataToWrite)
            /\ writer' = (Clean(latestPath) :> i) @@ writer
            /\ latestWriter' = (Clean(latestPath) :> i) @@ latestWriter
            /\ done' = ("latest" :> "ok") @@ done
            /\ Return("nil")
         \/ /\ done' = ("latest" :> "fail") @@ done
            /\ Return("writing latest file")
            /\ UNCHANGED <<fs, writer, latestWriter>>
  /\ UNCHANGED <<config, i, resolvedPath, req, attempts, resp, bodyBytes, dataToWrite,
                 exitCode, log, fs0, plainPaths>>

\* Mutant of WriteLatest: the latest copy is made of the bytes of the response.
WriteLatest_CopiesBody ==
  /\ pc = "pt_latest"
  /\ LET latestPath == generateLatestPath(resolvedPath)
     IN  \/ /\ fs' = writeFileWithDir(fs, latestPath, bodyBytes)
            /\ writer' = (Clean(latestPath) :> i) @@ writer
            /\ latestWriter' = (Clean(latestPath) :> i) @@ latestWriter
            /\ done' = ("latest" :> "ok") @@ done
         \/ /\ done' = ("latest" :> "fail") @@ done
            /\ UNCHANGED <<fs, writer, latestWriter>>
  /\ Return("nil")
  /\ UNCHANGED <<config, i, resolvedPath, req, attempts, resp, bodyBytes, dataToWrite,
                 exitCode, log, fs0, plainPaths>>

\* Mutant of WriteLatest: a latest file that exists is kept as it is.
WriteLatest_KeepsExisting ==
  /\ pc = "pt_latest"
  /\ LET latestPath == generateLatestPath(resolvedPath)
     IN  \/ /\ IF Clean(latestPath) \in DOMAIN fs
                 THEN UNCHANGED <<fs, writer>>
                 ELSE /\ fs' = writeFileWithDir(fs, latestPath, dataToWrite)
                      /\ writer' = (Clean(latestPath) :> i) @@ writer
            /\ latestWriter' = (Clean(latestPath) :> i) @@ latestWriter
            /\ done' = ("latest" :> "ok") @@ done
         \/ /\ done' = ("latest" :> "fail") @@ done
            /\ UNCHANGED <<fs, writer, latestWriter>>
  /\ Return("nil")
  /\ UNCHANGED <<config, i, resolvedPath, req, attempts, resp, bodyBytes, dataToWrite,
                 exitCode, log, fs0, plainPaths>>

\* main.go:550-563: the latest copy; its failure is only logged.
WriteLatest ==
  /\ pc = "pt_latest"
  /\ LET latestPath == generateLatestPath(resolvedPath)
     IN  \/ /\ fs' = writeFileWithDir(fs, latestPath, dataToWrite)
            /\ writer' = (Clean(latestPath) :> i) @@ writer
            /\ latestWriter' = (Clean(latestPath) :> i) @@ latestWriter
            /\ done' = ("latest" :> "ok") @@ done
         \/ /\ done' = ("latest" :> "fail") @@ done
            /\ UNCHANGED <<fs, writer, latestWriter>>
  /\ Return("nil")
  /\ UNCHANGED <<config, i, resolvedPath, req, attempts, resp, bodyBytes, dataToWrite,
                 exitCode, log, fs0, plainPaths>>

\* The end of a call of processTarget: its variables are gone.
EndCall ==
  /\ resolvedPath' = NoPath
  /\ req' = NoRequest
  /\ attempts' = 0
  /\ resp' = "none"
  /\ bodyBytes' = NoBytes
  /\ dataToWrite' = NoBytes
  /\ ret' = "none"
  /\ done' = NoWrites
  /\ fs0' = NoFiles

\* Mutant of AfterTarget: the loop stops at the first target that fails.
AfterTarget_StopOnError ==
  /\ pc = "pt_return"
  /\ log' = Append(log, Event(IF ret = "nil" THEN "ok" ELSE "failed", i))
  /\ IF ret # "nil"
       THEN pc' = "loop" /\ i' = N + 1
       ELSE IF delay > 0 /\ i < N
         THEN pc' = "sleep" /\ i' = i
         ELSE pc' = "loop" /\ i' = i + 1
  /\ EndCall
  /\ UNCHANGED <<config, files, exitCode>>

\* Mutant of AfterTarget: a target that fails is followed by no delay.
AfterTarget_NoDelayOnError ==
  /\ pc = "pt_return"
  /\ log' = Append(log, Event(IF ret = "nil" THEN "ok" ELSE "failed", i))
  /\ IF delay > 0 /\ i < N /\ ret = "nil"
       THEN pc' = "sleep" /\ i' = i
       ELSE pc' = "loop" /\ i' = i + 1
  /\ EndCall
  /\ UNCHANGED <<config, files, exitCode>>

\* Mutant of AfterTarget: the process exits with code 1 when a target fails.
AfterTarget_ExitOnError ==
  /\ pc = "pt_return"
  /\ log' = Append(log, Event(IF ret = "nil" THEN "ok" ELSE "failed", i))
  /\ IF ret # "nil"
       THEN pc' = "exit" /\ i' = i /\ exitCode' = 1
       ELSE /\ exitCode' = exitCode
            /\ IF delay > 0 /\ i < N
                 THEN pc' = "sleep" /\ i' = i
                 ELSE pc' = "loop" /\ i' = i + 1
  /\ EndCall
  /\ UNCHANGED <<config, files>>

\* main.go:603-613: processTarget has returned; an error is logged, and the
\* loop sleeps before the next target or goes on.
AfterTarget ==
  /\ pc = "pt_return"
  /\ log' = Append(log, Event(IF ret = "nil" THEN "ok" ELSE "failed", i))
  /\ IF delay > 0 /\ i < N
       THEN pc' = "sleep" /\ i' = i
       ELSE pc' = "loop" /\ i' = i + 1
  /\ EndCall
  /\ UNCHANGED <<config, files, exitCode>>

\* main.go:612: time.Sleep returns.
Sleep ==
  /\ pc = "sleep"
  /\ log' = Append(log, Event("sleep", i))
  /\ pc' = "loop"
  /\ i' = i + 1
  /\ UNCHANGED <<config, locals, files, exitCode, fs0, done>>

Next ==
  \/ LoopNext
  \/ LoopExit
  \/ ResolvePath
  \/ CreateRequest
  \/ Fetch
  \/ CheckResponse
  \/ FormatStep
  \/ Write
  \/ WriteLatest
  \/ AfterTarget
  \/ Sleep

Spec == Init /\ [][Next]_vars

(***************************************************************************)
(* processTarget (main.go:475) called on any target, validated or not:     *)
(* the targets, and the specification of one call.                         *)
(***************************************************************************)
\* A YAML value that is neither a string nor a sequence.
NilPath == [kind |-> "nil", v |-> <<>>]

IntPath == [kind |-> "int", v |-> <<>>]

\* A sequence of n scalars (the text of a scalar is kept under the name
\* string, as the template of a map is).
ArrayOfStrings(n) ==
  [kind |-> "array",
   v |-> [k \in 1..n |-> [kind |-> "string", v |-> [string |-> <<"x">>]]]]

\* A sequence of one map that has no "pattern" entry.
TemplateOnlyPath(template) ==
  [kind |-> "array", v |-> <<[kind |-> "map", v |-> [string |-> template]]>>]

T_Cache == <<"d", "/", "x", "-">> \o Placeholder \o DotJson

\* A template in which the placeholder occurs twice.
T_Twice == <<"d", "/">> \o Placeholder \o <<"/", "x", "-">> \o Placeholder \o DotJson

T_NoPlaceholder == <<"d", "/", "x">> \o DotJson

Z_Unknown == <<"M","a","r","s","/","B","a","s","e">>

L_Unknown == <<"D","a","t","e">>

\* The patterns of the supported layouts with the zones of the database.
GoodShapedPatterns ==
  {Pattern(l, z, P_Slug) : l \in Layouts, z \in DOMAIN ZoneDB \ {<<>>}}

OtherPatterns ==
  { Pattern(L_DateOnly, <<>>, P_Slug),
    Pattern(L_Unknown, Z_UTC, P_Slug),
    Pattern(L_DateOnly, Z_Unknown, P_Slug),
    Pattern(L_RFC3339, Z_UTC, P_None),
    L_DateOnly \o <<"-">> \o Z_UTC }

\* The file names of the static paths.
StaticPaths ==
  { <<".","/","c","a","c","h","e","/","d","a","t","a",".","p","p",".","j","s","o","n">>,
    <<".","/","c","a","c","h","e","/","d","a","t","a",".","j","s","o","n">>,
    <<".","/","c","a","c","h","e","/","d","a","t","a",".","b","i","n">>,
    <<".","/","c","a","c","h","e","/","d","a","t","a">>,
    <<"o","u","t","/","A",".","J","S","O","N">>,
    <<"a",".","j","s","o","n">>,
    <<"d",".","v","1","/","a">>,
    <<"d","/","a",".","p","p",".","j","s","o","n",".","b","a","k">>,
    <<"d","/",".","j","s","o","n">>,
    <<"/","t","/","a",".","J","s","o","n">>,
    <<"d","/","a",".","j","s","o","n",".","g","z">>,
    <<"d","/","b",".","p","p",".","j","s","o","n">>,
    <<"d","/","a",".","t","a","r",".","g","z">> }

AnyPaths ==
  TargetPaths
    \cup {StringPath(p) : p \in StaticPaths \cup {<<>>}}
    \cup {PatternPath(T_Cache, pat) : pat \in GoodShapedPatterns \cup OtherPatterns}
    \cup { PatternPath(T_Twice, Pattern(L_TimeOnly, Z_Tokyo, P_Slug)),
           PatternPath(T_NoPlaceholder, Pattern(L_DateOnly, Z_UTC, P_Slug)),
           PatternPath(<<>>, Pattern(L_DateOnly, Z_UTC, P_Slug)),
           TemplateOnlyPath(T_Cache),
           ArrayOfStrings(0), ArrayOfStrings(1), ArrayOfStrings(2),
           NilPath, IntPath }

U_Colon == <<":","b","a","d">>

U_FirstColon == <<"1","a",":","b">>

U_NoScheme == <<"h","/","o","k">>

AnyURLs == {U_Ok, U_Colon, U_FirstColon, U_NoScheme, <<>>}

H_NoSeparator == <<"X","-","K",":","v">>

H_EmptyName == <<" ",":"," ","v">>

H_Padded == <<" ","x","-","k"," ",":"," "," ","v"," ">>

H_Lower == <<"x","-","k",":"," ","1">>

H_Upper == <<"X","-","K",":"," ","2">>

\* Two lines whose names have a space in them and differ in case only.
H_SpacedLower == <<"x"," ","k",":"," ","1">>

H_SpacedUpper == <<"X"," ","K",":"," ","2">>

\* A line with the separator twice.
H_TwoSeparators == <<"A",":"," ","b",":"," ","c">>

AnyHeaders ==
  { <<>>, <<H_Accept>>, <<H_NoSeparator>>, <<H_EmptyName>>, <<H_Accept, H_NoSeparator>>,
    <<<<>>, H_Padded>>, <<H_Lower, H_Upper>>, <<H_TwoSeparators>>,
    <<H_Upper, <<>>, H_Accept, H_Lower>>, <<H_SpacedLower, H_SpacedUpper>> }

\* The targets: every path with a good URL and good headers, and every URL
\* and header list with a good path.
AnyTargets ==
  [url : {U_Ok}, path : AnyPaths, headers : {<<H_Accept>>}]
    \cup [url : AnyURLs, path : {StringPath(<<".","/","c","a","c","h","e","/","d","a","t","a",".","j","s","o","n">>)}, headers : AnyHeaders]

\* main has called processTarget on its only target.
InitTarget ==
  /\ targets \in [1..1 -> AnyTargets]
  /\ jsonFormat \in JsonFormats
  /\ latest \in BOOLEAN
  /\ delay = 0
  /\ pc = "pt_resolve"
  /\ i = 1
  /\ resolvedPath = NoPath
  /\ req = NoRequest
  /\ attempts = 0
  /\ resp = "none"
  /\ bodyBytes = NoBytes
  /\ dataToWrite = NoBytes
  /\ ret = "none"
  /\ fs = NoFiles
  /\ exitCode = -1
  /\ log = <<Event("begin", 1)>>
  /\ fs0 = NoFiles
  /\ done = NoWrites
  /\ writer = [p \in {} |-> 0]
  /\ latestWriter = [p \in {} |-> 0]
  /\ plainPaths = {}

NextTarget ==
  \/ ResolvePath
  \/ CreateRequest
  \/ Fetch
  \/ CheckResponse
  \/ FormatStep
  \/ Write
  \/ WriteLatest

SpecTarget == InitTarget /\ [][NextTarget]_vars

(***************************************************************************)
(* The process from its start: parseFlags, loadConfig and setupLoggers     *)
(* (main.go:566-583) before the loop.                                      *)
(***************************************************************************)
GoodTarget ==
  [url |-> U_Ok,
   path |-> PatternPath(T_Cache, Pattern(L_DateOnly, Z_UTC, P_Slug)),
   headers |-> <<H_Accept>>]

\* Targets with one fault each.
BadTargets ==
  { [GoodTarget EXCEPT !.url = <<>>],
    [GoodTarget EXCEPT !.url = U_Colon],
    [GoodTarget EXCEPT !.path = NilPath],
    [GoodTarget EXCEPT !.path = StringPath(<<>>)],
    [GoodTarget EXCEPT !.path = PatternPath(T_NoPlaceholder, Pattern(L_DateOnly, Z_UTC, P_Slug))],
    [GoodTarget EXCEPT !.path = PatternPath(T_Cache, Pattern(L_DateOnly, Z_Unknown, P_Slug))],
    [GoodTarget EXCEPT !.headers = <<H_Accept, H_NoSeparator>>] }

StartupTargets == {GoodTarget} \cup BadTargets

StartupConfigs == UNION {[1..n -> StartupTargets] : n \in 0..MaxTargets}

InitStartup ==
  /\ targets \in StartupConfigs
  /\ jsonFormat \in JsonFormats \cup {"xml"}
  /\ latest \in BOOLEAN
  /\ delay \in {-1, 0, 1}
  /\ pc = "start"
  /\ i = 1
  /\ resolvedPath = NoPath
  /\ req = NoRequest
  /\ attempts = 0
  /\ resp = "none"
  /\ bodyBytes = NoBytes
  /\ dataToWrite = NoBytes
  /\ ret = "none"
  /\ fs = NoFiles
  /\ exitCode = -1
  /\ log = <<>>
  /\ fs0 = NoFiles
  /\ done = NoWrites
  /\ writer = [p \in {} |-> 0]
  /\ latestWriter = [p \in {} |-> 0]
  /\ plainPaths = {}

\* main.go:567-583: parseFlags, loadConfig and setupLoggers; an error of any
\* of them ends the process with os.Exit(1).  setupLoggers fails when the
\* log file of the configuration cannot be created or opened.
Startup ==
  /\ pc = "start"
  /\ \E loggersOk \in BOOLEAN :
       IF parseFlags(delay, jsonFormat) # "" \/ validateConfig(targets) # "" \/ ~loggersOk
         THEN /\ pc' = "exit"
              /\ exitCode' = 1
         ELSE /\ pc' = "loop"
              /\ exitCode' = exitCode
  /\ UNCHANGED <<config, i, locals, files, log, fs0, done>>

NextStartup ==
  \/ Startup
  \/ Next

SpecStartup == InitStartup /\ [][NextStartup]_vars

\* The process keeps running until it exits: a single goroutine executes main,
\* and each HTTP attempt, each sleep and each write returns.  This is weak
\* fairness of NextStartup, a step being possible exactly until the exit.
FairStartup ==
  SpecStartup /\ ([]<>(pc = "exit") \/ []<><<NextStartup>>_vars)

(***************************************************************************)
(* Vocabulary of the properties                                            *)
(***************************************************************************)
Returned == pc = "pt_return"

InProcessTarget ==
  pc \in {"pt_resolve", "pt_request", "pt_fetch", "pt_response", "pt_format", "pt_write",
          "pt_latest", "pt_return"}

\* The outcome of a write of the current target, "none" if it was not attempted.
Did(kind) == IF kind \in DOMAIN done THEN done[kind] ELSE "none"

LatestKinds == {"latest", "latestPretty"}

Exists(path) == Clean(path) \in DOMAIN fs

Content(path) == fs[Clean(path)]

\* The events of the log that are not sleeps.
IsSleep(e) == e.ev = "sleep"

Calls == SelectSeq(log, LAMBDA e : ~IsSleep(e))

Sleeps == SelectSeq(log, IsSleep)

IsEnd(e) == e.ev \in {"ok", "failed"}

(***************************************************************************)
(* C1: when the fetch of a target ends with an error or with a status      *)
(* other than 200, processTarget returns an error, the target has written  *)
(* no file and every file is as it was when the target began.              *)
(***************************************************************************)
C1_FailedFetchWritesNothing ==
  (InProcessTarget /\ resp \in {"err", "s404"}) =>
     /\ fs = fs0
     /\ done = NoWrites
     /\ pc \in {"pt_response", "pt_return"}
     /\ Returned => ret \in {"fetching URL", "received status"}

\* The second target's fetch fails on a 404 after the first wrote its files.
C1_Witness ==
  /\ Returned
  /\ resp = "s404"
  /\ ret = "received status"
  /\ i = 2
  /\ fs # NoFiles

(***************************************************************************)
(* C2: the targets are processed once each, in configured order, one       *)
(* after the other: the calls of processTarget begin and end in the order  *)
(* 1, 2, ... whatever the earlier calls returned, every step of a call     *)
(* lies between its begin and its end, and main returns only after the     *)
(* call for the last target.                                               *)
(***************************************************************************)
C2_EveryTargetOnceInOrder ==
  /\ \A k \in 1..Len(Calls) :
       /\ Calls[k].t = (k + 1) \div 2
       /\ (k % 2 = 1) => Calls[k].ev = "begin"
       /\ (k % 2 = 0) => IsEnd(Calls[k])
  /\ InProcessTarget => (Len(Calls) = 2 * i - 1 /\ i \in 1..N)
  /\ pc \in {"loop", "sleep"} => Len(Calls) = 2 * (IF pc = "sleep" THEN i ELSE i - 1)
  /\ pc = "exit" => Len(Calls) = 2 * N
  /\ \A p \in DOMAIN writer : writer[p] \in 1..N /\ (pc # "exit" => writer[p] <= i)

\* The second target is being processed after the first one failed.
C2_Witness ==
  /\ pc = "pt_write"
  /\ i = 2
  /\ Calls[2] = Event("failed", 1)

(***************************************************************************)
(* C3: with a delay d > 0 the driver sleeps once after each target but     *)
(* the last, whether the target succeeded or failed, always between the    *)
(* end of a call and the begin of the next; with d = 0 it never sleeps.    *)
(***************************************************************************)
C3_SleepBetweenTargetsOnly ==
  /\ \A k \in 1..Len(log) :
       /\ IsSleep(log[k]) =>
            /\ delay > 0
            /\ log[k].t < N
            /\ k > 1 /\ IsEnd(log[k - 1]) /\ log[k - 1].t = log[k].t
       /\ (IsEnd(log[k]) /\ delay > 0 /\ log[k].t < N /\ k < Len(log)) =>
            log[k + 1] = Event("sleep", log[k].t)
       /\ (log[k].ev = "begin" /\ delay > 0 /\ k > 1) => IsSleep(log[k - 1])
  /\ delay = 0 => Len(Sleeps) = 0
  /\ (pc = "exit" /\ delay > 0) => Len(Sleeps) = N - 1

\* A run of two targets is over, with one sleep, after a target that failed.
C3_Witness ==
  /\ pc = "exit"
  /\ delay > 0
  /\ N = 2
  /\ Len(Sleeps) = 1
  /\ log[2] = Event("failed", 1)
  /\ log[3] = Event("sleep", 1)

(***************************************************************************)
(* Vocabulary of the formatter                                             *)
(***************************************************************************)
\* formatJSON goes past its first test: the path ends in .json, whatever the
\* case, and the format is not original.
FormatterApplies ==
  HasSuffix(ToLower(resolvedPath), DotJson) /\ jsonFormat # "original"

\* The body of the response has been read.
HasBody == bodyBytes # NoBytes

PrettyPath == TrimSuffix(resolvedPath, DotJson) \o DotPpJson

(***************************************************************************)
(* C4: when the primary write of a target fails, processTarget returns     *)
(* the write error and the target has written no latest file, neither      *)
(* the latest copy of the primary file nor latest.pp.json.                 *)
(***************************************************************************)
C4_FailedWriteLeavesNoLatest ==
  (Returned /\ Did("primary") = "fail") =>
     /\ ret = "writing file"
     /\ \A k \in LatestKinds : Did(k) # "ok"

(***************************************************************************)
(* C5: in mode both with a body that parses, when the write of the         *)
(* .pp.json file fails the target is not aborted and the primary file,     *)
(* once written, holds the minimized form of the body.                     *)
(***************************************************************************)
C5_PrettyFailureKeepsMinimized ==
  (Returned /\ jsonFormat = "both" /\ FormatterApplies /\ HasBody
     /\ UnmarshalOk(bodyBytes) /\ Did("pretty") = "fail") =>
     /\ Did("primary") # "none"
     /\ Did("primary") = "ok" =>
          /\ ret = "nil"
          /\ Content(resolvedPath) = Marshal(bodyBytes.v)

(***************************************************************************)
(* C6: when the formatter applies and the body does not parse, the         *)
(* target goes on to the primary write, and when that write succeeds the   *)
(* file holds the bytes of the response and processTarget returns nil.     *)
(***************************************************************************)
C6_UnparseableBodyWrittenAsIs ==
  (FormatterApplies /\ HasBody /\ ~UnmarshalOk(bodyBytes)) =>
     /\ pc \in {"pt_write", "pt_latest"} => dataToWrite = bodyBytes
     /\ Returned =>
          /\ Did("primary") # "none"
          /\ Did("primary") = "ok" =>
               /\ ret = "nil"
               /\ Content(resolvedPath) = bodyBytes

\* A body that does not parse was written to a .json path in mode pretty.
C6_Witness ==
  /\ Returned
  /\ jsonFormat = "pretty"
  /\ FormatterApplies
  /\ HasBody /\ ~UnmarshalOk(bodyBytes)
  /\ Did("primary") = "ok"
  /\ ret = "nil"

C8_LatestCopyIsIdentical ==
  (Returned /\ latest /\ Did("primary") = "ok" /\ Did("latest") = "ok") =>
     /\ Exists(generateLatestPath(resolvedPath))
     /\ Exists(resolvedPath)
     /\ Content(generateLatestPath(resolvedPath)) = Content(resolvedPath)

\* A templated path, a formatted body, and both writes succeeded.
C8_Witness ==
  /\ Returned
  /\ latest
  /\ targets[i].path.kind = "array"
  /\ jsonFormat = "minimized"
  /\ UnmarshalOk(bodyBytes)
  /\ Did("primary") = "ok"
  /\ Did("latest") = "ok"
  /\ generateLatestPath(resolvedPath) # resolvedPath

(***************************************************************************)
(* Vocabulary of the latest copies                                         *)
(***************************************************************************)
LatestJsonPath == Join(Dir(resolvedPath), LatestName \o DotJson)

LatestPpJsonPath == Join(Dir(resolvedPath), LatestName \o DotPpJson)

\* The four files of a target in mode both with --latest.
FourFiles ==
  /\ Exists(resolvedPath) /\ Content(resolvedPath) = Marshal(bodyBytes.v)
  /\ Exists(LatestJsonPath) /\ Content(LatestJsonPath) = Marshal(bodyBytes.v)
  /\ Exists(PrettyPath) /\ Content(PrettyPath) = MarshalIndent(bodyBytes.v)
  /\ Exists(LatestPpJsonPath) /\ Content(LatestPpJsonPath) = MarshalIndent(bodyBytes.v)

\* The case of C9: --latest, mode both, a path ending in .json, a body that
\* parses, and processTarget has returned nil.
BothWithLatestDone ==
  /\ Returned
  /\ ret = "nil"
  /\ latest
  /\ jsonFormat = "both"
  /\ HasSuffix(resolvedPath, DotJson)
  /\ HasBody
  /\ UnmarshalOk(bodyBytes)

NoWriteFailed == \A k \in DOMAIN done : done[k] = "ok"

ResolutionFails ==
  \A now \in Instants : ~GetResolvedPath(targets[i].path, now).ok

\* No request was created or sent and no file was written by this call.
NothingDone ==
  /\ ~req.made
  /\ attempts = 0
  /\ resp = "none"
  /\ done = NoWrites
  /\ fs = fs0

(***************************************************************************)
(* C11: when path resolution fails for a target, processTarget returns     *)
(* the resolution error at once: no request has been created, none has     *)
(* been sent and no file has been written for the target.                  *)
(***************************************************************************)
C11_ResolutionFailureAbortsFirst ==
  /\ (InProcessTarget /\ pc # "pt_resolve" /\ ResolutionFails) =>
        (Returned /\ ret = "resolving path" /\ NothingDone)
  /\ (Returned /\ ret = "resolving path") => (ResolutionFails /\ NothingDone)

\* A templated path whose pattern names an unknown zone has been refused.
C11_Witness ==
  /\ Returned
  /\ ret = "resolving path"
  /\ targets[i].path = PatternPath(T_Cache, Pattern(L_DateOnly, Z_Unknown, P_Slug))
  /\ urlParseOk(targets[i].url)

(***************************************************************************)
(* Vocabulary of the start                                                 *)
(***************************************************************************)
\* The faults startup validation is to refuse, stated on the input.
BadStart ==
  \/ Len(targets) = 0
  \/ \E k \in 1..Len(targets) : targets[k] \in BadTargets
  \/ delay < 0

\* No target has been processed at all.
NoTargetTouched ==
  /\ log = <<>>
  /\ NothingDone
  /\ fs = NoFiles
  /\ i = 1

(***************************************************************************)
(* C12: when the configuration has no targets, or one of its targets is    *)
(* invalid, or the delay is negative, the process exits with code 1        *)
(* before any target is processed: no request, no file, not even for the   *)
(* valid targets listed before the invalid one.                            *)
(***************************************************************************)
C12_StartupIsAllOrNothing ==
  /\ (BadStart /\ pc # "start") => (pc = "exit" /\ exitCode = 1 /\ NoTargetTouched)
  /\ exitCode = 1 => NoTargetTouched

\* A valid target followed by an invalid one, with valid flags: exit 1.
C12_Witness ==
  /\ pc = "exit"
  /\ exitCode = 1
  /\ Len(targets) = 2
  /\ targets[1] = GoodTarget
  /\ targets[2] \in BadTargets
  /\ parseFlags(delay, jsonFormat) = ""

(***************************************************************************)
(* Vocabulary of the exit                                                  *)
(***************************************************************************)
\* The targets whose call of processTarget returned an error.
Failures == {k \in 1..Len(log) : log[k].ev = "failed"}

\* The loop is over: every target has been processed and main has returned.
RunCompleted == pc = "exit" /\ Len(Calls) = 2 * N /\ N > 0

\* Startup has passed: the loop of main has been entered.
LoopEntered == pc # "start" /\ ~(pc = "exit" /\ log = <<>>)

(***************************************************************************)
(* C13 as stated: the exit status of a completed run tells whether every   *)
(* target succeeded: it is 0 exactly when no target aborted.               *)
(***************************************************************************)
C13_Original_ExitStatusReflectsFailures ==
  RunCompleted => (exitCode = 0 <=> Failures = {})

(***************************************************************************)
(* C13 amended: the exit status of a completed run is 0 with and without   *)
(* aborted targets; an abort shows only as the failed record of its        *)
(* target in the log, one for each target that aborted.                    *)
(***************************************************************************)
C13_ExitStatusIgnoresFailures ==
  RunCompleted =>
     /\ exitCode = 0
     /\ \A t \in 1..N : Cardinality({k \in Failures : log[k].t = t}) <= 1
     /\ \A k \in Failures : k > 1 /\ log[k - 1] = Event("begin", log[k].t)

\* A completed run of two targets of which the second aborted: exit 0.
C13_Witness ==
  /\ RunCompleted
  /\ N = 2
  /\ Calls[2] = Event("ok", 1)
  /\ Calls[4] = Event("failed", 2)
  /\ exitCode = 0

(***************************************************************************)
(* C14: once startup has passed, the exit code does not depend on the      *)
(* targets: the process runs on whatever processTarget returns and         *)
(* exits with code 0, also when every target aborted.                      *)
(***************************************************************************)
C14_ExitZeroAfterStartup ==
  /\ LoopEntered => exitCode = (IF pc = "exit" THEN 0 ELSE -1)
  /\ (LoopEntered /\ pc = "exit") => RunCompleted
  /\ (Returned /\ ret # "nil") => exitCode = -1

\* Both targets of a run aborted and the process has exited with code 0.
C14_Witness ==
  /\ pc = "exit"
  /\ N = 2
  /\ Failures = {2, 4}
  /\ exitCode = 0

(***************************************************************************)
(* Vocabulary of the fetch                                                 *)
(***************************************************************************)
\* client.Do has sent a request and is about to send another one.
RetryPending == pc = "pt_fetch" /\ attempts >= 1

\* The failures named by the specification: a network error and a
\* server-error status.
NetworkOrServerError == {"neterr", "s503"}

\* The attempts belong to the call in progress: none before client.Do, none
\* left over once client.Do has returned and been examined.
AttemptsArePerCall ==
  /\ attempts \in 0..(RetryMax + 1)
  /\ attempts > 0 => pc \in {"pt_fetch", "pt_response"}
  /\ pc = "pt_response" => attempts \in 1..(RetryMax + 1)

(***************************************************************************)
(* C15 as stated: at most 4 attempts for each target, a retry only after   *)
(* a network error or a server-error status, and a budget of attempts      *)
(* that is the target's own.                                               *)
(***************************************************************************)
C15_Original_RetryOnlyOnNetworkOrServerError ==
  /\ AttemptsArePerCall
  /\ RetryPending => resp \in NetworkOrServerError

(***************************************************************************)
(* C15 amended: at most 4 attempts for each target, a retry only after a   *)
(* failure the retry policy holds transient, which is a network error, a   *)
(* 429 status or a server-error status; a response with another status     *)
(* and an error that is not transient end client.Do at once; the budget    *)
(* is the target's own.                                                    *)
(***************************************************************************)
C15_RetryOnlyOnTransientFailure ==
  /\ AttemptsArePerCall
  /\ RetryPending => resp \in Transient
  /\ (pc = "pt_response" /\ resp \in {"s200", "s404"}) => attempts >= 1
  /\ (pc = "pt_response" /\ attempts = RetryMax + 1) => resp \in {"err", "s200", "s404"}

\* The second target's fourth attempt has failed, after a first target
\* that failed as well.
C15_Witness ==
  /\ i = 2
  /\ pc = "pt_response"
  /\ attempts = RetryMax + 1
  /\ resp = "err"
  /\ Calls[2] = Event("failed", 1)

(***************************************************************************)
(* Vocabulary of termination                                               *)
(***************************************************************************)
\* The records of the log that end the call for target t.
EndsOf(t) == {k \in 1..Len(log) : IsEnd(log[k]) /\ log[k].t = t}

\* Every target has reached one terminal state, Done or Aborted.
AllTerminal == \A t \in 1..N : Cardinality(EndsOf(t)) = 1

(***************************************************************************)
(* C16: when every HTTP attempt returns, the run ends, and it ends only    *)
(* after each of the N targets has reached exactly one terminal state,     *)
(* Done or Aborted, which it keeps: from some point on the process has     *)
(* exited, and unless startup failed every target is terminal.             *)
(***************************************************************************)
C16_EveryTargetTerminates ==
  <>[](pc = "exit" /\ (exitCode = 0 => AllTerminal))

\* The run has ended after its first target aborted and its second was done.
C16_Witness ==
  /\ pc = "exit"
  /\ exitCode = 0
  /\ N = 2
  /\ AllTerminal
  /\ log[2] = Event("failed", 1)
  /\ log[Len(log)] = Event("ok", 2)

(***************************************************************************)
(* C17: when the resolved path does not end in .json, whatever the case,   *)
(* or the format is original, the formatter does nothing: the bytes to     *)
(* write, and the bytes written at the resolved path, are the body of the  *)
(* response, parseable or not, and the formatter has written no pretty     *)
(* file and no latest copy of one; the only files of the target are the    *)
(* resolved path and its latest copy.                                      *)
(***************************************************************************)
PastFormat == pc \in {"pt_write", "pt_latest"} \/ (Returned /\ "primary" \in DOMAIN done)

C17_FormatterAppliesOnlyToJson ==
  (PastFormat /\ ~FormatterApplies) =>
    /\ dataToWrite = bodyBytes
    /\ Did("pretty") = "none"
    /\ Did("latestPretty") = "none"
    /\ Did("primary") = "ok" => Content(resolvedPath) = bodyBytes
    /\ DOMAIN fs \subseteq {Clean(resolvedPath), Clean(generateLatestPath(resolvedPath))}

\* In mode both a parseable body was written as it came at d/a.json.gz, a
\* path with .json in it that does not end in .json.
C17_Witness ==
  /\ Returned
  /\ ret = "nil"
  /\ jsonFormat = "both"
  /\ latest
  /\ resolvedPath = <<"d","/","a",".","j","s","o","n",".","g","z">>
  /\ ~FormatterApplies
  /\ UnmarshalOk(bodyBytes)
  /\ Did("primary") = "ok"
  /\ Content(resolvedPath) = bodyBytes
  /\ DOMAIN fs = {Clean(resolvedPath), <<"d","/","l","a","t","e","s","t",".","g","z">>}

(***************************************************************************)
(* C18: in mode both, for every resolved path that ends in .json, whatever *)
(* the case, and every body that parses, the pretty form is written at     *)
(* the resolved path with its last five characters, the .json suffix,      *)
(* replaced by .pp.json, which is another path than the resolved one.      *)
(***************************************************************************)
SuffixReplaced == SubSeq(resolvedPath, 1, Len(resolvedPath) - Len(DotJson)) \o DotPpJson

C18_PrettyReplacesJsonSuffix ==
  (/\ jsonFormat = "both"
   /\ FormatterApplies
   /\ UnmarshalOk(bodyBytes)
   /\ Did("pretty") = "ok") =>
     /\ Exists(SuffixReplaced)
     /\ Content(SuffixReplaced) = MarshalIndent(bodyBytes.v)
     /\ Clean(SuffixReplaced) # Clean(resolvedPath)

(***************************************************************************)
(* C19: the latest path of a resolved path has the directory of the        *)
(* resolved path, and as its filename latest.pp.json if the filename       *)
(* contains .pp.json, else latest.json if the filename ends with .json,    *)
(* else latest followed by the extension of the filename, else latest;     *)
(* the latest copy is written there.  ./cache/data.pp.json gives           *)
(* cache/latest.pp.json, ./cache/data.json gives cache/latest.json,        *)
(* ./cache/data.bin gives cache/latest.bin and ./cache/data gives          *)
(* cache/latest.                                                           *)
(***************************************************************************)
\* The extension of a filename: from its last dot on, empty without a dot.
ExtensionOf(filename) ==
  LET dots == {k \in 1..Len(filename) : filename[k] = "."}
  IN  IF dots = {} THEN <<>> ELSE SubSeq(filename, Max(dots), Len(filename))

LatestFilename(filename) ==
  IF Contains(filename, DotPpJson) THEN LatestName \o DotPpJson
  ELSE IF HasSuffix(filename, DotJson) THEN LatestName \o DotJson
  ELSE LatestName \o ExtensionOf(filename)

Cache == <<"c","a","c","h","e","/">>

CacheData == <<".","/">> \o Cache \o <<"d","a","t","a">>

LatestExamples ==
  /\ generateLatestPath(CacheData \o DotPpJson) = Cache \o LatestName \o DotPpJson
  /\ generateLatestPath(CacheData \o DotJson) = Cache \o LatestName \o DotJson
  /\ generateLatestPath(CacheData \o <<".","b","i","n">>)
       = Cache \o LatestName \o <<".","b","i","n">>
  /\ generateLatestPath(CacheData) = Cache \o LatestName

ZonePatternPaths == {PatternPath(T_Cache, pat) : pat \in GoodShapedPatterns}

C20_EveryZoneNameAccepted ==
  (InProcessTarget /\ pc # "pt_resolve" /\ targets[i].path \in ZonePatternPaths) =>
    /\ validatePathConfig(targets[i].path) = ""
    /\ ret # "resolving path"
    /\ resolvedPath # NoPath

(***************************************************************************)
(* C21: with slug processing the generated value is lowercase and has a    *)
(* hyphen for every space, colon and special character of the formatted    *)
(* timestamp: it is made of digits, lower-case letters and hyphens only.   *)
(***************************************************************************)
\* The pattern value within a path resolved from the template T_Cache.
PatternValue == SubSeq(resolvedPath, 5, Len(resolvedPath) - Len(DotJson))

FilenameSafe(s) == \A k \in 1..Len(s) : IsLower(s[k]) \/ IsDigit(s[k]) \/ s[k] = "-"

C21_SlugIsFilenameSafe ==
  (/\ InProcessTarget
   /\ targets[i].path \in ZonePatternPaths
   /\ resolvedPath # NoPath) => FilenameSafe(PatternValue)

(***************************************************************************)
(* C22: a path whose pattern is RFC3339-UTC-none passes validation and is  *)
(* resolved, the pattern value being the formatted timestamp as it is,     *)
(* with its case and its colons.                                           *)
(***************************************************************************)
NonePath == PatternPath(T_Cache, Pattern(L_RFC3339, Z_UTC, P_None))

C22_NoneIsSupported ==
  (InProcessTarget /\ pc # "pt_resolve" /\ targets[i].path = NonePath) =>
    /\ validatePathConfig(NonePath) = ""
    /\ ret # "resolving path"
    /\ \E now \in Instants : PatternValue = Format(InZone(now, 0), L_RFC3339)

(***************************************************************************)
(* C23: for every valid pattern with processing slug and every instant,    *)
(* the pattern value is the instant in the zone of the pattern, formatted  *)
(* by its layout, with a hyphen for each colon and every other character   *)
(* as it was; so it has no colon, and the instant and the pattern          *)
(* determine it.  The resolved path holds the value of one instant.        *)
(***************************************************************************)
ColonsToHyphens(s) == [k \in 1..Len(s) |-> IF s[k] = ":" THEN "-" ELSE s[k]]

\* A path configuration that validation accepts, with its template and pattern.
ValidPatternPath ==
  /\ targets[i].path.kind = "array"
  /\ validatePathConfig(targets[i].path) = ""

TemplateOf(path) == path.v[1].v["string"]

PatternOf(path) == path.v[1].v["pattern"]

\* The formatted timestamp of an instant for a pattern, before processing.
Formatted(pattern, now) ==
  LET parts == Split(pattern, <<"-">>)
  IN  Format(InZone(now, ZoneDB[parts[2]]), parts[1])

TemplatedPath ==
  /\ targets[i].path.kind = "array"
  /\ Len(targets[i].path.v) = 1
  /\ targets[i].path.v[1].kind = "map"
  /\ {"string", "pattern"} \subseteq DOMAIN targets[i].path.v[1].v

\* The pieces with v between each two of them.
RECURSIVE Interleave(_, _)
Interleave(pieces, v) ==
  IF Len(pieces) = 1 THEN pieces[1]
  ELSE pieces[1] \o v \o Interleave(Tail(pieces), v)

MissingPlaceholder == Err("path template must contain {pattern} placeholder")

C24_EveryPlaceholderReplaced ==
  (InProcessTarget /\ pc # "pt_resolve") =>
    /\ targets[i].path.kind = "string" =>
         /\ resolvedPath = targets[i].path.v
         /\ ret # "resolving path"
    /\ (TemplatedPath /\ ~Contains(TemplateOf(targets[i].path), Placeholder)) =>
         /\ Returned /\ ret = "resolving path"
         /\ \A now \in Instants : GetResolvedPath(targets[i].path, now) = MissingPlaceholder
    /\ (TemplatedPath /\ Contains(TemplateOf(targets[i].path), Placeholder)
          /\ ret # "resolving path") =>
         /\ ~Contains(resolvedPath, Placeholder)
         /\ \E now \in Instants :
              /\ generatePatternValue(PatternOf(targets[i].path), now).ok
              /\ resolvedPath =
                   Interleave(Split(TemplateOf(targets[i].path), Placeholder),
                              generatePatternValue(PatternOf(targets[i].path), now).v)

\* The template d/{pattern}/x-{pattern}.json has the value at both places.
C24_Witness ==
  /\ pc = "pt_request"
  /\ TemplatedPath
  /\ TemplateOf(targets[i].path) = T_Twice
  /\ resolvedPath = <<"d","/","1","5","-","3","0","-","4","5","/","x","-","1","5","-","3","0","-","4","5",".","j","s","o","n">>

(***************************************************************************)
(* Vocabulary of the headers                                               *)
(***************************************************************************)
\* The lines of the target that are not empty.
HeaderLines == {j \in 1..Len(targets[i].headers) : targets[i].headers[j] # <<>>}

FirstSeparator(line) == Min(Occurrences(line, ColonSpace))

NameOf(line) == TrimSpace(SubSeq(line, 1, FirstSeparator(line) - 1))

ValueOf(line) ==
  TrimSpace(SubSeq(line, FirstSeparator(line) + Len(ColonSpace), Len(line)))

Malformed(line) == ~Contains(line, ColonSpace) \/ NameOf(line) = <<>>

\* The name of line j and its value.
LineName(j) == NameOf(targets[i].headers[j])

LineValue(j) == ValueOf(targets[i].headers[j])

\* Two names that differ at most in the case of their letters.
SameName(a, b) == ToLower(a) = ToLower(b)

IsToken(name) == \A k \in 1..Len(name) : IsTokenChar(name[k])

\* processTarget is past the headers of a target whose URL is parsed.
PastHeaders ==
  /\ InProcessTarget
  /\ pc \notin {"pt_resolve", "pt_request"}
  /\ ret # "resolving path"
  /\ urlParseOk(targets[i].url)

SomeLineMalformed == \E j \in HeaderLines : Malformed(targets[i].headers[j])

\* parseHeaders has failed and the request has no headers of the target.
ParseFailed ==
  /\ ~parseHeaders(targets[i].headers).ok
  /\ Returned /\ ret = "parsing headers"
  /\ ~req.made

\* The headers of the request are what parseHeaders returns, and each comes
\* from a line of the target.
HeadersFromLines ==
  /\ req.made
  /\ req.header = parseHeaders(targets[i].headers).v
  /\ \A n \in DOMAIN req.header : \E j \in HeaderLines : SameName(n, LineName(j))

\* The request has one header with the name of line j, whatever the case,
\* and its value is that of the last line with the name.
OneValuePerName(j) ==
  LET same == {k \in HeaderLines : SameName(LineName(k), LineName(j))}
      keys == {n \in DOMAIN req.header : SameName(n, LineName(j))}
  IN  /\ Cardinality(keys) = 1
      /\ \A n \in keys : req.header[n] = LineValue(Max(same))

(***************************************************************************)
(* C25 as stated: parseHeaders skips the empty lines and splits each other *)
(* line at its first ": " into a trimmed name and a trimmed value; the     *)
(* mapping has for each name, compared without regard to case, exactly one *)
(* value, that of the last line with the name; a line without ": " or with *)
(* an empty name makes the parse fail with no mapping.                     *)
(***************************************************************************)
C25_Original_OneValuePerName ==
  PastHeaders =>
    IF SomeLineMalformed THEN ParseFailed
    ELSE /\ HeadersFromLines
         /\ \A j \in HeaderLines : OneValuePerName(j)

(***************************************************************************)
(* C25 amended: the same, the names taken as http.Header.Set stores them:  *)
(* a name that is a token has one value whatever its case, that of the     *)
(* last line with it; a name that is not a token (one with a space in it)  *)
(* is kept as written, its value being that of the last line with exactly  *)
(* that name.                                                              *)
(***************************************************************************)
C25_HeadersLastValueWins ==
  PastHeaders =>
    IF SomeLineMalformed THEN ParseFailed
    ELSE /\ HeadersFromLines
         /\ \A j \in HeaderLines :
              IF IsToken(LineName(j)) THEN OneValuePerName(j)
              ELSE /\ LineName(j) \in DOMAIN req.header
                   /\ req.header[LineName(j)] =
                        LineValue(Max({k \in HeaderLines : LineName(k) = LineName(j)}))

\* Of the lines X-K: 2, an empty one, Accept: a/b and x-k: 1 the request has
\* two headers, X-K with the value of the last line.
C25_Witness ==
  /\ pc = "pt_fetch"
  /\ targets[i].headers = <<H_Upper, <<>>, H_Accept, H_Lower>>
  /\ DOMAIN req.header = {<<"X","-","K">>, <<"A","c","c","e","p","t">>}
  /\ req.header[<<"X","-","K">>] = <<"1">>

(***************************************************************************)
(* C26: what validateConfig accepts, processTarget can resolve: for a      *)
(* configuration that validateConfig accepts, with the same zone           *)
(* database, GetResolvedPath succeeds at every instant with a non-empty    *)
(* path and parseHeaders succeeds, so processTarget returns neither the    *)
(* path-resolution error nor the header-parsing error.                     *)
(***************************************************************************)
Accepted == validateConfig(targets) = ""

C26_ValidatedTargetsResolve ==
  (Accepted /\ InProcessTarget) =>
    /\ \A now \in Instants :
         /\ GetResolvedPath(targets[i].path, now).ok
         /\ GetResolvedPath(targets[i].path, now).v # <<>>
    /\ parseHeaders(targets[i].headers).ok
    /\ ret \notin {"resolving path", "parsing headers"}
    /\ pc # "pt_resolve" => resolvedPath # NoPath
    /\ pc \notin {"pt_resolve", "pt_request"} => req.made

\* An accepted target with a pattern and two header lines is being fetched.
C26_Witness ==
  /\ Accepted
  /\ pc = "pt_fetch"
  /\ ValidPatternPath
  /\ PatternOf(targets[i].path) = Pattern(L_Kitchen, Z_NewYork, P_Slug)
  /\ resolvedPath # NoPath
  /\ req.made

====
